---- MODULE Spec2Model ----
(***************************************************************************)
(* The ERD tool's schema state (App.tsx) and the handlers that change it:  *)
(* the toolbar, the template panel, the SQL editor, the table nodes of the *)
(* diagram, the diagram's connect gesture and the relationship panel.      *)
(*                                                                         *)
(* A Table is [id, name, columns]; its layout position is a pair of random *)
(* numbers that no handler below reads, and is left out.  A Relationship   *)
(* is kept whole.  An optional field that is absent holds Undefined.       *)
(* Sequences are 1-based here and 0-based in the source: relationship k of *)
(* the model is index k-1 of the source.                                   *)
(***************************************************************************)
EXTENDS Integers, Sequences, FiniteSets, TLC

VARIABLES
    tables,          \* App.tsx:38  useState<Table[]>([])
    relationships,   \* App.tsx:39  useState<Relationship[]>([])
    now,             \* the reading of Date.now() at the next SQL parse
    last,            \* the handler that ran last, with its arguments
    steps,           \* the number of handlers run so far
    errors,          \* what the last call of validateSchema returned
    errorRelationships, \* what the last call of getRelationshipErrors returned
    sql              \* SQLEditor.tsx:11  useState(...), as a list of tokens

vars == <<tables, relationships, now, last, steps, errors, errorRelationships, sql>>

-----------------------------------------------------------------------------
(* Bounds of the model *)

MaxTables == 3
MaxRels == 3
MaxNow == 2
MaxCols == 3
MaxSteps == 4
MaxSchemaTables == 3
MaxSchemaRels == 2

-----------------------------------------------------------------------------
(* Values *)

Undefined == "undefined"

Col(name, type, nullable, pk, fk, unique, default) ==
    [name |-> name, type |-> type, nullable |-> nullable, primary_key |-> pk,
     foreign_key |-> fk, unique |-> unique, default |-> default]

Rel(ft, fc, tt, tc, type, card) ==
    [from_table |-> ft, from_column |-> fc, to_table |-> tt, to_column |-> tc,
     relationship_type |-> type, cardinality |-> card]

\* The argument of onAddTable in Toolbar.handleAddTable.
NewTable ==
    [name |-> "new_table",
     columns |-> <<Col("id", "INTEGER", FALSE, TRUE, Undefined, TRUE, Undefined)>>]

\* RelationshipPanel: the options of the two selects.
cardinalityOptions ==
    <<[value |-> "1:1", type |-> "one-to-one"],
      [value |-> "1:N", type |-> "one-to-many"],
      [value |-> "N:M", type |-> "many-to-many"]>>

relationshipTypes == <<"one-to-one", "one-to-many", "many-to-one", "many-to-many">>

Range(s) == {s[i] : i \in DOMAIN s}

\* { ...a, ...b } of JavaScript: the fields of b override those of a.
Merge(a, b) ==
    [f \in DOMAIN a \cup DOMAIN b |-> IF f \in DOMAIN b THEN b[f] ELSE a[f]]

-----------------------------------------------------------------------------
(* What the backend answers.  The template catalogue and the SQL parser are *)
(* behind HTTP; the handlers receive their answers as data.                 *)

UsersTable ==
    [name |-> "users",
     columns |-> <<Col("id", "INTEGER", FALSE, TRUE, Undefined, FALSE, Undefined)>>]

PostsTable ==
    [name |-> "posts",
     columns |-> <<Col("id", "INTEGER", FALSE, TRUE, Undefined, FALSE, Undefined),
                   Col("user_id", "INTEGER", TRUE, FALSE, "users(id)", FALSE, Undefined)>>]

AuthorsTable ==
    [name |-> "authors",
     columns |-> <<Col("id", "INTEGER", FALSE, TRUE, Undefined, FALSE, Undefined)>>]

BooksTable ==
    [name |-> "books",
     columns |-> <<Col("id", "INTEGER", FALSE, TRUE, Undefined, FALSE, Undefined)>>]

\* data of TemplatePanel.applyTemplate: tables and relationships by name.
TemplateData ==
    {[tables |-> <<UsersTable, PostsTable>>,
      relationships |-> <<Rel("posts", "user_id", "users", "id", "many-to-one", "1:N")>>],
     [tables |-> <<AuthorsTable, BooksTable>>,
      relationships |-> <<Rel("authors", "id", "books", "id", "many-to-many", "N:M")>>]}

\* result.tables of SQLEditor.handleParse (the editor's initial SQL text
\* declares users and posts).
ParseResults == {<<UsersTable>>, <<UsersTable, PostsTable>>}

\* The text the SQL editor starts with, token by token (its comment line is
\* no token).
InitialSql ==
    <<"CREATE", "TABLE", "users", "(",
        "id", "INTEGER", "PRIMARY", "KEY", ",",
        "username", "VARCHAR(255)", "NOT", "NULL", ",",
        "email", "VARCHAR(255)", "UNIQUE", ",",
        "created_at", "TIMESTAMP", "DEFAULT", "CURRENT_TIMESTAMP",
      ")", ";",
      "CREATE", "TABLE", "posts", "(",
        "id", "INTEGER", "PRIMARY", "KEY", ",",
        "title", "VARCHAR(255)", "NOT", "NULL", ",",
        "content", "TEXT", ",",
        "user_id", "INTEGER", "REFERENCES", "users", "(", "id", ")", ",",
        "created_at", "TIMESTAMP", "DEFAULT", "CURRENT_TIMESTAMP",
      ")", ";">>

\* What the user can type into the table-name input.
TableNameInputs == {"people", "users"}

-----------------------------------------------------------------------------
(* App.tsx state updaters, as functions of the previous state *)

\* addTable: setTables(prev => [...prev, { ...table, id: table.name || `table_${Date.now()}` }])
addTable(prev, table, t) ==
    Append(prev, Merge(table,
        [id |-> IF table.name # "" THEN table.name ELSE "table_" \o ToString(t)]))

\* updateTable: every table whose id is `id` gets the updates merged in.
updateTable(prev, id, updates) ==
    [i \in DOMAIN prev |-> IF prev[i].id = id THEN Merge(prev[i], updates) ELSE prev[i]]

\* removeTable, tables part.
removeTableTables(prev, id) ==
    LET Keep(table) == table.id # id IN SelectSeq(prev, Keep)

\* removeTable, relationships part.
removeTableRels(prev, id) ==
    LET Keep(rel) == rel.from_table # id /\ rel.to_table # id
    IN SelectSeq(prev, Keep)

\* addRelationship
addRelationship(prev, relationship) == Append(prev, relationship)

\* updateRelationship
updateRelationship(prev, index, updates) ==
    [i \in DOMAIN prev |-> IF i = index THEN Merge(prev[i], updates) ELSE prev[i]]

\* removeRelationship: prev.filter((_, i) => i !== index)
removeRelationship(prev, index) ==
    IF index \in DOMAIN prev
    THEN SubSeq(prev, 1, index - 1) \o SubSeq(prev, index + 1, Len(prev))
    ELSE prev

\* createJunctionTable: the name of the junction table.
junctionTableName(fromTable, toTable) == fromTable \o "_" \o toTable

\* A junction table whose second column is left out of the primary key.
junctionTable_SinglePk(fromTable, toTable) ==
    [name |-> junctionTableName(fromTable, toTable),
     columns |->
        <<Col(fromTable \o "_id", "INTEGER", FALSE, TRUE, fromTable \o "(id)", FALSE, Undefined),
          Col(toTable \o "_id", "INTEGER", FALSE, FALSE, toTable \o "(id)", FALSE, Undefined),
          Col("created_at", "TIMESTAMP", FALSE, FALSE, Undefined, FALSE, "CURRENT_TIMESTAMP")>>]

\* createJunctionTable: the junction table handed to addTable.
junctionTable(fromTable, toTable) ==
    [name |-> junctionTableName(fromTable, toTable),
     columns |->
        <<Col(fromTable \o "_id", "INTEGER", FALSE, TRUE, fromTable \o "(id)", FALSE, Undefined),
          Col(toTable \o "_id", "INTEGER", FALSE, TRUE, toTable \o "(id)", FALSE, Undefined),
          Col("created_at", "TIMESTAMP", FALSE, FALSE, Undefined, FALSE, "CURRENT_TIMESTAMP")>>]

\* A filter that drops the N:M relationship in the direction given only.
removeManyToMany_OneWay(prev, fromTable, toTable) ==
    LET Keep(rel) ==
            ~(rel.from_table = fromTable /\ rel.to_table = toTable /\ rel.cardinality = "N:M")
    IN SelectSeq(prev, Keep)

\* createJunctionTable: the filter that drops the N:M relationship of the pair.
removeManyToMany(prev, fromTable, toTable) ==
    LET Keep(rel) ==
            /\ ~(rel.from_table = fromTable /\ rel.to_table = toTable /\ rel.cardinality = "N:M")
            /\ ~(rel.from_table = toTable /\ rel.to_table = fromTable /\ rel.cardinality = "N:M")
    IN SelectSeq(prev, Keep)

\* The two relationships drawn from the junction table to the source tables.
newRelationships_Reversed(fromTable, toTable) ==
    <<Rel(junctionTableName(fromTable, toTable), fromTable \o "_id", fromTable, "id",
          "many-to-one", "1:N"),
      Rel(junctionTableName(fromTable, toTable), toTable \o "_id", toTable, "id",
          "many-to-one", "1:N")>>

\* createJunctionTable: the two relationships into the junction table.
newRelationships(fromTable, toTable) ==
    <<Rel(fromTable, "id", junctionTableName(fromTable, toTable), fromTable \o "_id",
          "one-to-many", "1:N"),
      Rel(toTable, "id", junctionTableName(fromTable, toTable), toTable \o "_id",
          "one-to-many", "1:N")>>

\* handleApplyTemplate: the conversion of one template table.
convertTemplateTable(table) ==
    [id |-> table.name, name |-> table.name, columns |-> table.columns]

\* SQLEditor.handleParse: the conversion of result.tables; index is 0-based.
parsedTables(resultTables, t) ==
    [i \in DOMAIN resultTables |->
        [id |-> "table_" \o ToString(t) \o "_" \o ToString(i - 1),
         name |-> resultTables[i].name,
         columns |-> resultTables[i].columns]]

\* RelationshipPanel, cardinality select: the type of the chosen option.
typeOfCardinality(value) ==
    LET found == {k \in DOMAIN cardinalityOptions : cardinalityOptions[k].value = value}
    IN IF found = {} THEN "one-to-many"
       ELSE cardinalityOptions[CHOOSE k \in found : TRUE].type

\* A type select that leaves the cardinality as it was.
derivedCardinality_Kept(value, current) == current

\* RelationshipPanel, type select: the cardinality derived from the type.
derivedCardinality(value, current) ==
    IF value = "one-to-one" THEN "1:1"
    ELSE IF value = "one-to-many" THEN "1:N"
    ELSE IF value = "many-to-one" THEN "1:N"
    ELSE IF value = "many-to-many" THEN "N:M"
    ELSE current

\* DiagramCanvas.onConnect: the relationship built from the connection.
connectRelationship(source, sourceHandle, target, targetHandle) ==
    Rel(source, sourceHandle, target, targetHandle, "one-to-many", "1:N")

-----------------------------------------------------------------------------
(* utils/schemaValidator.ts: SchemaValidator.validateSchema                 *)
(*                                                                          *)
(* A ValidationError is [type, message, table, column, relationship]; an    *)
(* absent table or column holds Undefined, an absent relationship NoIndex.  *)
(* The relationship locator is the 0-based index of the source.             *)

NoIndex == -1

Finding(type, message, table, column, relationship) ==
    [type |-> type, message |-> message, table |-> table, column |-> column,
     relationship |-> relationship]

\* As Flatten, walking the elements from the last to the first.
RECURSIVE Flatten_Reversed(_)
Flatten_Reversed(lists) ==
    IF Len(lists) = 0 THEN <<>> ELSE Flatten_Reversed(Tail(lists)) \o Head(lists)

\* errors.push in the order of the forEach: the lists of the elements, one
\* after the other.
RECURSIVE Flatten(_)
Flatten(lists) ==
    IF Len(lists) = 0 THEN <<>> ELSE Head(lists) \o Flatten(Tail(lists))

\* tableMap.get(name) for tableMap = new Map(tables.map(t => [t.name, t])):
\* the position of the last table of that name, 0 for undefined.
tableMapGet(tables_, name) ==
    LET found == {i \in DOMAIN tables_ : tables_[i].name = name}
    IN IF found = {} THEN 0 ELSE CHOOSE i \in found : \A j \in found : j <= i

\* columns.find(col => col.name === name): the position of the first column
\* of that name, 0 for undefined.
findColumn(columns, name) ==
    LET found == {c \in DOMAIN columns : columns[c].name = name}
    IN IF found = {} THEN 0 ELSE CHOOSE c \in found : \A d \in found : c <= d

\* The characters of \w.
WordChars ==
    {"a", "b", "c", "d", "e", "f", "g", "h", "i", "j", "k", "l", "m",
     "n", "o", "p", "q", "r", "s", "t", "u", "v", "w", "x", "y", "z",
     "A", "B", "C", "D", "E", "F", "G", "H", "I", "J", "K", "L", "M",
     "N", "O", "P", "Q", "R", "S", "T", "U", "V", "W", "X", "Y", "Z",
     "0", "1", "2", "3", "4", "5", "6", "7", "8", "9", "_"}

\* str matches \w+
IsWord(str) ==
    /\ Len(str) > 0
    /\ \A p \in 1..Len(str) : SubSeq(str, p, p) \in WordChars

\* column.foreign_key.match(/^(\w+)\((\w+)\)$/): <<refTableName, refColumnName>>,
\* or <<>> for null.  No word holds a parenthesis, so the first group ends at
\* the first "(" of the string.
fkMatch(str) ==
    LET opens == {p \in 1..Len(str) : SubSeq(str, p, p) = "("}
    IN IF opens = {} THEN <<>>
       ELSE LET open == CHOOSE p \in opens : \A q \in opens : p <= q
                refTableName == SubSeq(str, 1, open - 1)
                refColumnName == SubSeq(str, open + 1, Len(str) - 1)
            IN IF /\ SubSeq(str, Len(str), Len(str)) = ")"
                  /\ IsWord(refTableName)
                  /\ IsWord(refColumnName)
               THEN <<refTableName, refColumnName>>
               ELSE <<>>

\* As duplicateTableName, reporting a repeated name once only.
duplicateTableName_Once(tables_, i) ==
    IF Cardinality({j \in 1..(i - 1) : tables_[j].name = tables_[i].name}) = 1
    THEN <<Finding("error", "Duplicate table name: " \o tables_[i].name,
                   tables_[i].name, Undefined, NoIndex)>>
    ELSE <<>>

\* 1. Validate table names are unique: the finding of the table at position i.
duplicateTableName(tables_, i) ==
    IF \E j \in 1..(i - 1) : tables_[j].name = tables_[i].name
    THEN <<Finding("error", "Duplicate table name: " \o tables_[i].name,
                   tables_[i].name, Undefined, NoIndex)>>
    ELSE <<>>

\* As missingPrimaryKey, with every() in the place of some().
missingPrimaryKey_Every(table) ==
    IF ~\A c \in DOMAIN table.columns : table.columns[c].primary_key
    THEN <<Finding("warning", "Table '" \o table.name \o "' has no primary key",
                   table.name, Undefined, NoIndex)>>
    ELSE <<>>

\* 2. Validate primary keys: the warning of one table.
missingPrimaryKey(table) ==
    IF \A c \in DOMAIN table.columns : ~table.columns[c].primary_key
    THEN <<Finding("warning", "Table '" \o table.name \o "' has no primary key",
                   table.name, Undefined, NoIndex)>>
    ELSE <<>>

\* As duplicateColumnName, reporting a repeated name once only.
duplicateColumnName_Once(table, c) ==
    IF Cardinality({d \in 1..(c - 1) :
                       table.columns[d].name = table.columns[c].name}) = 1
    THEN <<Finding("error",
                   "Duplicate column name '" \o table.columns[c].name
                       \o "' in table '" \o table.name \o "'",
                   table.name, table.columns[c].name, NoIndex)>>
    ELSE <<>>

\* 2. Check for duplicate column names within table: the finding of column c.
duplicateColumnName(table, c) ==
    IF \E d \in 1..(c - 1) : table.columns[d].name = table.columns[c].name
    THEN <<Finding("error",
                   "Duplicate column name '" \o table.columns[c].name
                       \o "' in table '" \o table.name \o "'",
                   table.name, table.columns[c].name, NoIndex)>>
    ELSE <<>>

\* As tableFindings, with the duplicate column names reported before the
\* primary key warning.
tableFindings_ColumnsFirst(table) ==
    Flatten([c \in DOMAIN table.columns |-> duplicateColumnName(table, c)])
        \o missingPrimaryKey(table)

\* 2. The findings of one table: the primary key warning, then the duplicate
\* column names.
tableFindings(table) ==
    missingPrimaryKey(table)
        \o Flatten([c \in DOMAIN table.columns |-> duplicateColumnName(table, c)])

\* 3. Check if referenced tables exist: one endpoint of relationship k.
missingTable(tables_, name, k) ==
    IF tableMapGet(tables_, name) = 0
    THEN <<Finding("error", "Relationship references non-existent table: " \o name,
                   Undefined, Undefined, k - 1)>>
    ELSE <<>>

\* As missingColumn, looking the table up with tables.find: the first table
\* of the name, not the last.
missingColumn_FirstTable(tables_, tableName, columnName, k) ==
    LET found == {i \in DOMAIN tables_ : tables_[i].name = tableName}
        t == IF found = {} THEN 0 ELSE CHOOSE i \in found : \A j \in found : i <= j
    IN IF t # 0 /\ findColumn(tables_[t].columns, columnName) = 0
       THEN <<Finding("error",
                      "Column '" \o columnName \o "' does not exist in table '"
                          \o tableName \o "'",
                      Undefined, Undefined, k - 1)>>
       ELSE <<>>

\* 3. Check if referenced columns exist: one endpoint of relationship k.
missingColumn(tables_, tableName, columnName, k) ==
    LET t == tableMapGet(tables_, tableName)
    IN IF t # 0 /\ findColumn(tables_[t].columns, columnName) = 0
       THEN <<Finding("error",
                      "Column '" \o columnName \o "' does not exist in table '"
                          \o tableName \o "'",
                      Undefined, Undefined, k - 1)>>
       ELSE <<>>

\* What every object literal inherits from Object.prototype.
ObjectPrototypeKeys ==
    {"constructor", "__proto__", "hasOwnProperty", "isPrototypeOf",
     "propertyIsEnumerable", "toLocaleString", "toString", "valueOf",
     "__defineGetter__", "__defineSetter__", "__lookupGetter__", "__lookupSetter__"}

\* 3. validTypes.includes(...) where cardinalityTypeMap[rel.cardinality] is an
\* inherited member: it is truthy, so `|| []` keeps it, and it has no
\* includes: TypeError.
includesThrows(rel) == rel.cardinality \in ObjectPrototypeKeys

\* 3. cardinalityTypeMap[rel.cardinality] || [], for a cardinality that names
\* no inherited member.
validTypes(cardinality) ==
    IF cardinality = "1:1" THEN {"one-to-one"}
    ELSE IF cardinality = "1:N" THEN {"one-to-many", "many-to-one"}
    ELSE IF cardinality = "N:M" THEN {"many-to-many"}
    ELSE {}

\* 3. Validate cardinality matches relationship type: relationship k.
cardinalityMismatch(rel, k) ==
    IF rel.relationship_type \notin validTypes(rel.cardinality)
    THEN <<Finding("warning",
                   "Cardinality '" \o rel.cardinality
                       \o "' doesn't match relationship type '"
                       \o rel.relationship_type \o "'",
                   Undefined, Undefined, k - 1)>>
    ELSE <<>>

\* 3. The findings of relationship k.
relationshipFindings(tables_, rel, k) ==
    missingTable(tables_, rel.from_table, k)
        \o missingTable(tables_, rel.to_table, k)
        \o missingColumn(tables_, rel.from_table, rel.from_column, k)
        \o missingColumn(tables_, rel.to_table, rel.to_column, k)
        \o cardinalityMismatch(rel, k)

\* if (column.foreign_key): undefined and the empty string are falsy.
hasForeignKey(column) ==
    column.foreign_key # Undefined /\ column.foreign_key # ""

\* As foreignKeyFinding, without the look-up of the referenced column.
foreignKeyFinding_TableOnly(tables_, table, column) ==
    LET where == "'" \o table.name \o "." \o column.name \o "'"
        fk == fkMatch(column.foreign_key)
    IN IF ~hasForeignKey(column) THEN <<>>
       ELSE IF fk = <<>>
       THEN <<Finding("error",
                      "Invalid foreign key format in " \o where \o ": "
                          \o column.foreign_key,
                      table.name, column.name, NoIndex)>>
       ELSE IF tableMapGet(tables_, fk[1]) = 0
       THEN <<Finding("error",
                      "Foreign key in " \o where
                          \o " references non-existent table '" \o fk[1] \o "'",
                      table.name, column.name, NoIndex)>>
       ELSE <<>>

\* As foreignKeyFinding, with a referent that counts as unique by its unique
\* flag alone.
foreignKeyFinding_UniqueOnly(tables_, table, column) ==
    LET where == "'" \o table.name \o "." \o column.name \o "'"
        fk == fkMatch(column.foreign_key)
    IN IF ~hasForeignKey(column) THEN <<>>
       ELSE IF fk = <<>>
       THEN <<Finding("error",
                      "Invalid foreign key format in " \o where \o ": "
                          \o column.foreign_key,
                      table.name, column.name, NoIndex)>>
       ELSE LET ref == "'" \o fk[1] \o "." \o fk[2] \o "'"
                t == tableMapGet(tables_, fk[1])
                c == IF t = 0 THEN 0 ELSE findColumn(tables_[t].columns, fk[2])
            IN IF t = 0
               THEN <<Finding("error",
                              "Foreign key in " \o where
                                  \o " references non-existent table '" \o fk[1] \o "'",
                              table.name, column.name, NoIndex)>>
               ELSE IF c = 0
               THEN <<Finding("error",
                              "Foreign key in " \o where
                                  \o " references non-existent column " \o ref,
                              table.name, column.name, NoIndex)>>
               ELSE IF ~tables_[t].columns[c].unique
               THEN <<Finding("warning",
                              "Foreign key in " \o where
                                  \o " references non-unique column " \o ref,
                              table.name, column.name, NoIndex)>>
               ELSE <<>>

foreignKeyFinding(tables_, table, column) ==
    LET where == "'" \o table.name \o "." \o column.name \o "'"
        fk == fkMatch(column.foreign_key)
    IN IF ~hasForeignKey(column) THEN <<>>
       ELSE IF fk = <<>>
       THEN <<Finding("error",
                      "Invalid foreign key format in " \o where \o ": "
                          \o column.foreign_key,
                      table.name, column.name, NoIndex)>>
       ELSE LET ref == "'" \o fk[1] \o "." \o fk[2] \o "'"
                t == tableMapGet(tables_, fk[1])
                c == IF t = 0 THEN 0 ELSE findColumn(tables_[t].columns, fk[2])
            IN IF t = 0
               THEN <<Finding("error",
                              "Foreign key in " \o where
                                  \o " references non-existent table '" \o fk[1] \o "'",
                              table.name, column.name, NoIndex)>>
               ELSE IF c = 0
               THEN <<Finding("error",
                              "Foreign key in " \o where
                                  \o " references non-existent column " \o ref,
                              table.name, column.name, NoIndex)>>
               ELSE IF ~tables_[t].columns[c].primary_key /\ ~tables_[t].columns[c].unique
               THEN <<Finding("warning",
                              "Foreign key in " \o where
                                  \o " references non-unique column " \o ref,
                              table.name, column.name, NoIndex)>>
               ELSE <<>>

\* The call throws out of the relationship pass.
validateSchemaThrows(relationships_) ==
    \E k \in DOMAIN relationships_ : includesThrows(relationships_[k])

\* What validateSchema returns when it returns: the four passes, each in the
\* order of its forEach.  The columnMap the source builds first is never read.
validateSchema(tables_, relationships_) ==
    Flatten([i \in DOMAIN tables_ |-> duplicateTableName(tables_, i)])
        \o Flatten([i \in DOMAIN tables_ |-> tableFindings(tables_[i])])
        \o Flatten([k \in DOMAIN relationships_ |->
                        relationshipFindings(tables_, relationships_[k], k)])
        \o Flatten([i \in DOMAIN tables_ |->
                        Flatten([c \in DOMAIN tables_[i].columns |->
                                    foreignKeyFinding(tables_, tables_[i],
                                                      tables_[i].columns[c])])])

\* The handler that ran: i, j are positions (in tables or relationships),
\* a, b are strings (ids or names).
Op(op, i, j, a, b) == [op |-> op, i |-> i, j |-> j, a |-> a, b |-> b]

-----------------------------------------------------------------------------
Init ==
    /\ tables = <<>>
    /\ relationships = <<>>
    /\ now = 1
    /\ last = Op("init", 0, 0, "", "")
    /\ steps = 0
    /\ errors = <<>>
    /\ errorRelationships = <<>>
    /\ sql = InitialSql

\* Every handler counts as one step of the run; no handler calls the validator.
Step ==
    /\ steps < MaxSteps
    /\ steps' = steps + 1
    /\ UNCHANGED <<errors, errorRelationships, sql>>

\* Toolbar.handleAddTable -> App.addTable
HandleAddTable ==
    /\ Step
    /\ Len(tables) < MaxTables
    /\ tables' = addTable(tables, NewTable, now)
    /\ last' = Op("addTable", 0, 0, NewTable.name, "")
    /\ UNCHANGED <<relationships, now>>

\* TemplatePanel.applyTemplate -> App.handleApplyTemplate
HandleApplyTemplate(data) ==
    /\ Step
    /\ Len(tables) + Len(data.tables) <= MaxTables
    /\ Len(relationships) + Len(data.relationships) <= MaxRels
    /\ tables' = tables \o [i \in DOMAIN data.tables |-> convertTemplateTable(data.tables[i])]
    /\ relationships' = relationships \o data.relationships
    /\ last' = Op("applyTemplate", 0, 0, "", "")
    /\ UNCHANGED now

\* SQLEditor.handleParse with an ok response -> App.handleSQLParse(parsedTables):
\* the second argument is not passed, so the relationships stay.
HandleParse(resultTables) ==
    /\ Step
    /\ now < MaxNow
    /\ Len(resultTables) <= MaxTables
    /\ tables' = parsedTables(resultTables, now)
    /\ now' = now + 1
    /\ last' = Op("parse", 0, 0, "", "")
    /\ UNCHANGED relationships

\* TableNode.handleSaveTableName on node i -> onUpdate -> App.updateTable(table.id, { name })
HandleSaveTableName(i, tempTableName) ==
    /\ Step
    /\ i \in DOMAIN tables
    /\ tables' = updateTable(tables, tables[i].id, [name |-> tempTableName])
    /\ last' = Op("saveTableName", i, 0, tables[i].name, tempTableName)
    /\ UNCHANGED <<relationships, now>>

\* TableNode remove button on node i -> onRemove -> App.removeTable(table.id)
HandleRemoveTable(i) ==
    /\ Step
    /\ i \in DOMAIN tables
    /\ tables' = removeTableTables(tables, tables[i].id)
    /\ relationships' = removeTableRels(relationships, tables[i].id)
    /\ last' = Op("removeTable", i, 0, tables[i].id, tables[i].name)
    /\ UNCHANGED now

\* DiagramCanvas.onConnect: the source and target are node ids (table.id), the
\* handles are column names (TableNode renders Handle id={column.name}).
OnConnect(i, ci, j, cj) ==
    /\ Step
    /\ i \in DOMAIN tables /\ j \in DOMAIN tables
    /\ ci \in DOMAIN tables[i].columns /\ cj \in DOMAIN tables[j].columns
    /\ Len(relationships) < MaxRels
    /\ LET source == tables[i].id
           target == tables[j].id
           sourceHandle == tables[i].columns[ci].name
           targetHandle == tables[j].columns[cj].name
       IN /\ source # "" /\ target # "" /\ sourceHandle # "" /\ targetHandle # ""
          /\ relationships' = addRelationship(relationships,
                 connectRelationship(source, sourceHandle, target, targetHandle))
    /\ last' = Op("onConnect", i, j, "", "")
    /\ UNCHANGED <<tables, now>>

\* RelationshipPanel, cardinality select of relationship k
OnChangeCardinality(k, value) ==
    /\ Step
    /\ k \in DOMAIN relationships
    /\ relationships' = updateRelationship(relationships, k,
           [cardinality |-> value, relationship_type |-> typeOfCardinality(value)])
    /\ last' = Op("changeCardinality", k, 0, value, "")
    /\ UNCHANGED <<tables, now>>

\* RelationshipPanel, relationship type select of relationship k
OnChangeType(k, value) ==
    /\ Step
    /\ k \in DOMAIN relationships
    /\ relationships' = updateRelationship(relationships, k,
           [relationship_type |-> value,
            cardinality |-> derivedCardinality(value, relationships[k].cardinality)])
    /\ last' = Op("changeType", k, 0, value, "")
    /\ UNCHANGED <<tables, now>>

\* RelationshipPanel, remove button of relationship k
OnRemoveRelationship(k) ==
    /\ Step
    /\ k \in DOMAIN relationships
    /\ relationships' = removeRelationship(relationships, k)
    /\ last' = Op("removeRelationship", k, 0, "", "")
    /\ UNCHANGED <<tables, now>>

\* RelationshipPanel, "Create Junction Table" button of relationship k (shown
\* only when its cardinality is N:M) -> App.createJunctionTable(from, to)
OnCreateJunctionTable(k) ==
    /\ Step
    /\ k \in DOMAIN relationships
    /\ relationships[k].cardinality = "N:M"
    /\ Len(tables) < MaxTables
    /\ LET fromTable == relationships[k].from_table
           toTable == relationships[k].to_table
           kept == removeManyToMany(relationships, fromTable, toTable)
           added == newRelationships(fromTable, toTable)
       IN /\ Len(kept) + Len(added) <= MaxRels
          /\ tables' = addTable(tables, junctionTable(fromTable, toTable), now)
          /\ relationships' =
                 addRelationship(addRelationship(kept, added[1]), added[2])
          /\ last' = Op("createJunctionTable", k, 0, fromTable, toTable)
    /\ UNCHANGED now

Next ==
    \/ HandleAddTable
    \/ \E data \in TemplateData : HandleApplyTemplate(data)
    \/ \E r \in ParseResults : HandleParse(r)
    \/ \E i \in 1..MaxTables, n \in TableNameInputs : HandleSaveTableName(i, n)
    \/ \E i \in 1..MaxTables : HandleRemoveTable(i)
    \/ \E i, j \in 1..MaxTables, ci, cj \in 1..MaxCols : OnConnect(i, ci, j, cj)
    \/ \E k \in 1..MaxRels, v \in {"1:1", "1:N", "N:M"} : OnChangeCardinality(k, v)
    \/ \E k \in 1..MaxRels, v \in Range(relationshipTypes) : OnChangeType(k, v)
    \/ \E k \in 1..MaxRels : OnRemoveRelationship(k)
    \/ \E k \in 1..MaxRels : OnCreateJunctionTable(k)

Spec == Init /\ [][Next]_vars

\* The runs in which every relationship is made by the application itself:
\* all handlers but the template panel, whose relationships are backend data.
NextEditor ==
    \/ HandleAddTable
    \/ \E r \in ParseResults : HandleParse(r)
    \/ \E i \in 1..MaxTables, n \in TableNameInputs : HandleSaveTableName(i, n)
    \/ \E i \in 1..MaxTables : HandleRemoveTable(i)
    \/ \E i, j \in 1..MaxTables, ci, cj \in 1..MaxCols : OnConnect(i, ci, j, cj)
    \/ \E k \in 1..MaxRels, v \in {"1:1", "1:N", "N:M"} : OnChangeCardinality(k, v)
    \/ \E k \in 1..MaxRels, v \in Range(relationshipTypes) : OnChangeType(k, v)
    \/ \E k \in 1..MaxRels : OnRemoveRelationship(k)
    \/ \E k \in 1..MaxRels : OnCreateJunctionTable(k)

SpecEditor == Init /\ [][NextEditor]_vars

\* As relationshipError, looking at the tables alone.
relationshipError_TablesOnly(tables_, rel, k) ==
    IF tableMapGet(tables_, rel.from_table) = 0 \/ tableMapGet(tables_, rel.to_table) = 0
    THEN <<k - 1>>
    ELSE <<>>

\* getRelationshipErrors: the index of relationship k when a table or a column
\* of an endpoint does not exist.
relationshipError(tables_, rel, k) ==
    LET fromTable == tableMapGet(tables_, rel.from_table)
        toTable == tableMapGet(tables_, rel.to_table)
    IN IF fromTable = 0 \/ toTable = 0 THEN <<k - 1>>
       ELSE IF \/ findColumn(tables_[fromTable].columns, rel.from_column) = 0
               \/ findColumn(tables_[toTable].columns, rel.to_column) = 0
       THEN <<k - 1>>
       ELSE <<>>

\* SchemaValidator.getRelationshipErrors(relationships, tableMap), tableMap
\* being the name-keyed map of tables_.
getRelationshipErrors(relationships_, tables_) ==
    Flatten([k \in DOMAIN relationships_ |->
                relationshipError(tables_, relationships_[k], k)])

-----------------------------------------------------------------------------
(* validateSchema as a function of the schema it is handed.  The editor can *)
(* hold any of these: table and column names are free text and repeat,      *)
(* foreign_key is whatever the parser or the template sent.                 *)

SchemaTable(name, columns) == [id |-> name, name |-> name, columns |-> columns]

SchemaTables ==
    {SchemaTable("users",
         <<Col("id", "INTEGER", TRUE, TRUE, Undefined, FALSE, Undefined),
           Col("email", "TEXT", TRUE, FALSE, "", TRUE, Undefined),
           Col("name", "TEXT", TRUE, FALSE, Undefined, FALSE, Undefined)>>),
     SchemaTable("users",
         <<Col("id", "INTEGER", FALSE, FALSE, Undefined, FALSE, Undefined)>>),
     SchemaTable("posts",
         <<Col("id", "INTEGER", FALSE, TRUE, Undefined, FALSE, Undefined),
           Col("user_id", "INTEGER", TRUE, FALSE, "users(id)", FALSE, Undefined),
           Col("id", "INTEGER", TRUE, FALSE, "ghost(id)", FALSE, Undefined),
           Col("id", "INTEGER", TRUE, FALSE, "users(name)", FALSE, Undefined)>>),
     SchemaTable("posts",
         <<Col("ref", "INTEGER", TRUE, FALSE, "users.id", FALSE, Undefined),
           Col("name", "TEXT", TRUE, FALSE, "", FALSE, Undefined),
           Col("user_id", "INTEGER", TRUE, FALSE, "users(email)", FALSE, Undefined),
           Col("user_id", "INTEGER", TRUE, FALSE, "users(id", FALSE, Undefined)>>)}

SchemaRelationships ==
    {Rel("posts", "user_id", "users", "id", "many-to-one", "1:N"),
     Rel("ghost", "id", "users", "id", "one-to-one", "1:1"),
     Rel("users", "id", "posts", "id", "many-to-many", "1:1"),
     Rel("posts", "id", "ghost", "id", "one-to-many", Undefined),
     Rel("posts", "user_id", "users", "id", "many-to-one", "constructor")}

\* The sequences over S of length at most n.
SeqsUpTo(S, n) == UNION {[1..m -> S] : m \in 0..n}

InitValidate ==
    /\ tables \in SeqsUpTo(SchemaTables, MaxSchemaTables)
    /\ relationships \in SeqsUpTo(SchemaRelationships, MaxSchemaRels)
    /\ now = 1
    /\ last = Op("init", 0, 0, "", "")
    /\ steps = 0
    /\ errors = <<>>
    /\ errorRelationships = <<>>
    /\ sql = InitialSql

\* As ValidateSchema, with a validator that reverses the table list it is
\* handed (tables.reverse() is in place).
ValidateSchema_ReversesTables ==
    /\ IF validateSchemaThrows(relationships)
       THEN /\ UNCHANGED <<errors, errorRelationships>>
            /\ last' = Op("validateSchema", 0, 0, "TypeError", "")
       ELSE /\ errors' = validateSchema(tables, relationships)
            /\ errorRelationships' = getRelationshipErrors(relationships, tables)
            /\ last' = Op("validateSchema", 0, 0, "", "")
    /\ tables' = [i \in DOMAIN tables |-> tables[Len(tables) + 1 - i]]
    /\ UNCHANGED <<relationships, now, steps, sql>>

\* The validation App runs on its schema: validateSchema(tables,
\* relationships), then getRelationshipErrors(relationships, tableMap) with
\* tableMap = new Map(tables.map(t => [t.name, t])).  The arguments are read,
\* never assigned.  When validateSchema throws nothing is assigned and the
\* second call is not made; last.a tells how it ended.
ValidateSchema ==
    /\ IF validateSchemaThrows(relationships)
       THEN /\ UNCHANGED <<errors, errorRelationships>>
            /\ last' = Op("validateSchema", 0, 0, "TypeError", "")
       ELSE /\ errors' = validateSchema(tables, relationships)
            /\ errorRelationships' = getRelationshipErrors(relationships, tables)
            /\ last' = Op("validateSchema", 0, 0, "", "")
    /\ UNCHANGED <<tables, relationships, now, steps, sql>>

NextValidate == ValidateSchema

SpecValidate == InitValidate /\ [][NextValidate]_vars

-----------------------------------------------------------------------------
(* Properties *)

TableNames(ts) == {ts[i].name : i \in DOMAIN ts}

TableIds(ts) == {ts[i].id : i \in DOMAIN ts}

\* rel is an N:M relationship between A and B, in either direction.
ManyToManyBetween(rel, A, B) ==
    /\ rel.cardinality = "N:M"
    /\ \/ rel.from_table = A /\ rel.to_table = B
       \/ rel.from_table = B /\ rel.to_table = A

\* The relationships of rels that are not an N:M relationship between A and B.
OtherThanManyToMany(rels, A, B) ==
    LET Other(rel) == ~ManyToManyBetween(rel, A, B) IN SelectSeq(rels, Other)

\* s occurs in t as a subsequence: its elements, in order, from position i of
\* s and position j of t onwards.
RECURSIVE SubsequenceFrom(_, _, _, _)
SubsequenceFrom(s, i, t, j) ==
    IF i > Len(s) THEN TRUE
    ELSE IF j > Len(t) THEN FALSE
    ELSE IF s[i] = t[j] THEN SubsequenceFrom(s, i + 1, t, j + 1)
    ELSE SubsequenceFrom(s, i, t, j + 1)

JunctionStep == last'.op = "createJunctionTable" /\ steps' # steps

\* The mapping between cardinality and relationship_type.
InMapping(rel) ==
    \/ rel.cardinality = "1:1" /\ rel.relationship_type = "one-to-one"
    \/ rel.cardinality = "1:N" /\ rel.relationship_type \in {"one-to-many", "many-to-one"}
    \/ rel.cardinality = "N:M" /\ rel.relationship_type = "many-to-many"

\* C1: createJunctionTable(A, B) leaves tables and relationships unchanged
\* whenever no table named A exists, no table named B exists, or no N:M
\* relationship between A and B exists.
C1_JunctionFailsAtomically ==
    [][(JunctionStep /\ (\/ last'.a \notin TableNames(tables)
                         \/ last'.b \notin TableNames(tables)
                         \/ \A k \in DOMAIN relationships :
                                ~ManyToManyBetween(relationships[k], last'.a, last'.b)))
        => (tables' = tables /\ relationships' = relationships)]_vars

\* C2: after removeTable is applied to a table, no relationship has from_table
\* or to_table equal to that table's name.
C2_RemoveCascadesByName ==
    last.op = "removeTable" =>
        \A k \in DOMAIN relationships :
            /\ relationships[k].from_table # last.b
            /\ relationships[k].to_table # last.b

\* C3: in every reachable state the names of the tables are pairwise distinct.
C3_TableNamesDistinct ==
    \A i, j \in DOMAIN tables : i # j => tables[i].name # tables[j].name

\* C4: the ids of the tables are pairwise distinct, a rename keeps every id, and
\* updateTable and removeTable change or remove exactly the one table they are
\* applied to.
C4_IdIdentifiesOneTable ==
    [][/\ \A i, j \in DOMAIN tables' : i # j => tables'[i].id # tables'[j].id
       /\ (last'.op = "saveTableName" /\ steps' # steps) =>
             /\ Len(tables') = Len(tables)
             /\ \A m \in DOMAIN tables :
                    /\ tables'[m].id = tables[m].id
                    /\ m # last'.i => tables'[m] = tables[m]
       /\ (last'.op = "removeTable" /\ steps' # steps) =>
             tables' = SubSeq(tables, 1, last'.i - 1)
                         \o SubSeq(tables, last'.i + 1, Len(tables))]_vars

\* C5: the relationship made by connecting two columns stores the names of the
\* two connected tables in from_table and to_table.
C5_ConnectStoresNames ==
    [][(last'.op = "onConnect" /\ steps' # steps) =>
          LET rel == relationships'[Len(relationships')]
          IN /\ rel.from_table = tables[last'.i].name
             /\ rel.to_table = tables[last'.j].name]_vars

\* C6: after a rename from N to M, every relationship endpoint that was N is M.
C6_RenameRewritesEndpoints ==
    [][(last'.op = "saveTableName" /\ steps' # steps) =>
          /\ Len(relationships') = Len(relationships)
          /\ \A k \in DOMAIN relationships :
                /\ relationships[k].from_table = last'.a
                      => relationships'[k].from_table = last'.b
                /\ relationships[k].to_table = last'.a
                      => relationships'[k].to_table = last'.b]_vars

\* C7: every relationship made by connections, panel edits and junction
\* normalization keeps cardinality and relationship_type in the mapping
\* 1:1 -> {one-to-one}, 1:N -> {one-to-many, many-to-one}, N:M -> {many-to-many}.
C7_CardinalityTypeMapping ==
    \A k \in DOMAIN relationships : InMapping(relationships[k])

\* A type edit to one-to-one has moved the cardinality off the 1:N that a
\* connection starts with.
C7_Witness ==
    /\ last.op = "changeType" /\ last.a = "one-to-one"
    /\ relationships[last.i].relationship_type = "one-to-one"
    /\ relationships[last.i].cardinality = "1:1"

\* C8: createJunctionTable(A, B) appends exactly one table, named A_B, whose
\* columns are A_id (INTEGER, primary key, foreign key A(id)), B_id (INTEGER,
\* primary key, foreign key B(id)) and created_at (TIMESTAMP, default
\* CURRENT_TIMESTAMP, not a primary key), and changes no other table.
C8_JunctionTableShape ==
    [][JunctionStep =>
          LET A == last'.a
              B == last'.b
              t == tables'[Len(tables')]
          IN /\ Len(tables') = Len(tables) + 1
             /\ SubSeq(tables', 1, Len(tables)) = tables
             /\ t.name = A \o "_" \o B
             /\ Len(t.columns) = 3
             /\ t.columns[1].name = A \o "_id" /\ t.columns[1].type = "INTEGER"
             /\ t.columns[1].primary_key /\ t.columns[1].foreign_key = A \o "(id)"
             /\ t.columns[2].name = B \o "_id" /\ t.columns[2].type = "INTEGER"
             /\ t.columns[2].primary_key /\ t.columns[2].foreign_key = B \o "(id)"
             /\ t.columns[3].name = "created_at" /\ t.columns[3].type = "TIMESTAMP"
             /\ t.columns[3].default = "CURRENT_TIMESTAMP"
             /\ ~t.columns[3].primary_key]_vars

\* A junction table for two different tables stands after the two tables.
C8_Witness ==
    /\ last.op = "createJunctionTable" /\ last.a # last.b
    /\ Len(tables) = 3
    /\ tables[3].name = last.a \o "_" \o last.b
    /\ {last.a, last.b} \subseteq TableNames(SubSeq(tables, 1, 2))

\* C9: after createJunctionTable(A, B) no N:M relationship between A and B is
\* left, in either direction, and every other relationship is still present in
\* its original relative order.
C9_JunctionRemovesManyToMany ==
    [][JunctionStep =>
          /\ \A k \in DOMAIN relationships' :
                ~ManyToManyBetween(relationships'[k], last'.a, last'.b)
          /\ SubsequenceFrom(OtherThanManyToMany(relationships, last'.a, last'.b), 1,
                             relationships', 1)]_vars

\* A normalization that kept a relationship that was there before.
C9_Witness ==
    /\ last.op = "createJunctionTable"
    /\ Len(relationships) = 3
    /\ relationships[1].to_table # last.a \o "_" \o last.b

\* C10: createJunctionTable(A, B) appends exactly two relationships after the
\* ones it keeps: A.id -> A_B.A_id and B.id -> A_B.B_id, both 1:N, one-to-many.
C10_JunctionAddsTwoRelationships ==
    [][JunctionStep =>
          LET A == last'.a
              B == last'.b
              kept == OtherThanManyToMany(relationships, A, B)
              n == Len(relationships')
          IN /\ n = Len(kept) + 2
             /\ SubSeq(relationships', 1, n - 2) = kept
             /\ relationships'[n - 1] =
                    Rel(A, "id", A \o "_" \o B, A \o "_id", "one-to-many", "1:N")
             /\ relationships'[n] =
                    Rel(B, "id", A \o "_" \o B, B \o "_id", "one-to-many", "1:N")]_vars

\* The last two relationships point into the junction table that was added.
C10_Witness ==
    /\ last.op = "createJunctionTable"
    /\ Len(relationships) >= 2
    /\ relationships[Len(relationships)].to_table = tables[Len(tables)].name
    /\ relationships[Len(relationships) - 1].to_table = tables[Len(tables)].name
    /\ relationships[Len(relationships) - 1].from_table = last.a

-----------------------------------------------------------------------------
(* Properties of validateSchema *)

\* validateSchema was called on the schema.
Called == last.op = "validateSchema"

\* It returned, and errors is the list it returned.
Validated == Called /\ last.a # "TypeError"

Count(fs, Test(_)) == Cardinality({n \in DOMAIN fs : Test(fs[n])})

\* The kinds of finding, told apart by severity, message and locator.
IsDuplicateTable(f) ==
    f.type = "error" /\ f.message = "Duplicate table name: " \o f.table

IsMissingPrimaryKey(f) ==
    f.type = "warning" /\ f.message = "Table '" \o f.table \o "' has no primary key"

IsDuplicateColumn(f) ==
    /\ f.type = "error"
    /\ f.message = "Duplicate column name '" \o f.column \o "' in table '" \o f.table \o "'"

IsEndpointError(f) == f.type = "error" /\ f.relationship # NoIndex

IsMismatch(f) == f.type = "warning" /\ f.relationship # NoIndex

IsForeignKey(f) ==
    f.column # Undefined /\ f.relationship = NoIndex /\ ~IsDuplicateColumn(f)

HasPrimaryKey(table) == \E c \in DOMAIN table.columns : table.columns[c].primary_key

\* The columns of a table whose name an earlier column of it has.
RepeatedColumns(table) ==
    {c \in DOMAIN table.columns :
        \E d \in 1..(c - 1) : table.columns[d].name = table.columns[c].name}

SixCheckRank(f) ==
    IF IsDuplicateTable(f) THEN 1
    ELSE IF IsDuplicateColumn(f) THEN 2
    ELSE IF IsMissingPrimaryKey(f) THEN 3
    ELSE IF IsEndpointError(f) THEN 4
    ELSE IF IsMismatch(f) THEN 5
    ELSE 6

\* C12 as stated: the findings come in the order of the six checks, no
\* finding of a later check before a finding of an earlier check.
C12_SixCheckOrder ==
    Validated =>
        \A m, n \in DOMAIN errors :
            m < n => SixCheckRank(errors[m]) <= SixCheckRank(errors[n])

\* The four passes of the validator.
PassRank(f) ==
    IF IsDuplicateTable(f) THEN 1
    ELSE IF IsDuplicateColumn(f) \/ IsMissingPrimaryKey(f) THEN 2
    ELSE IF f.relationship # NoIndex THEN 3
    ELSE 4

\* How many findings the primary key pass has for one table.
TablePassCount(table) ==
    (IF HasPrimaryKey(table) THEN 0 ELSE 1) + Cardinality(RepeatedColumns(table))

RECURSIVE TablePassOffset(_, _)
TablePassOffset(ts, i) ==
    IF i = 1 THEN 0
    ELSE TablePassOffset(ts, i - 1) + TablePassCount(ts[i - 1])

\* C12, amended: the findings come in the order of four passes (duplicate
\* table names; then table by table the missing-primary-key warning of the
\* table followed by its duplicate-column errors; then relationship by
\* relationship the endpoint errors of the relationship followed by its
\* mismatch warning; then the foreign-key findings), no finding of a later
\* pass before a finding of an earlier pass.
C12_FourPassOrder ==
    Validated =>
        LET tablePass == SelectSeq(errors, LAMBDA f : PassRank(f) = 2)
            relPass == SelectSeq(errors, LAMBDA f : PassRank(f) = 3)
        IN /\ \A m, n \in DOMAIN errors :
                  m < n => PassRank(errors[m]) <= PassRank(errors[n])
           /\ Len(tablePass) = TablePassOffset(tables, Len(tables) + 1)
           /\ \A i \in DOMAIN tables : \A p \in 1..TablePassCount(tables[i]) :
                  LET f == tablePass[TablePassOffset(tables, i) + p]
                  IN /\ f.table = tables[i].name
                     /\ IsMissingPrimaryKey(f) <=> (p = 1 /\ ~HasPrimaryKey(tables[i]))
           /\ \A m, n \in DOMAIN relPass :
                  m < n =>
                      /\ relPass[m].relationship <= relPass[n].relationship
                      /\ relPass[m].relationship = relPass[n].relationship
                             => relPass[m].type = "error"

\* A table without primary key and with a repeated column name, then a
\* second table; a relationship with an endpoint error and a mismatch, then a
\* second relationship with an endpoint error; and a foreign-key finding.
C12_Witness ==
    /\ Validated
    /\ \E m, n \in DOMAIN errors :
           /\ m < n
           /\ IsMissingPrimaryKey(errors[m])
           /\ IsDuplicateColumn(errors[n])
           /\ errors[m].table = errors[n].table
    /\ \E m, n \in DOMAIN errors :
           /\ m < n
           /\ IsDuplicateColumn(errors[m])
           /\ IsMissingPrimaryKey(errors[n])
    /\ \E m, n \in DOMAIN errors :
           /\ m < n
           /\ IsMismatch(errors[m])
           /\ IsEndpointError(errors[n])
    /\ \E n \in DOMAIN errors : IsForeignKey(errors[n])
    /\ \E n \in DOMAIN errors : IsDuplicateTable(errors[n])

\* The lists of a list, one after the other.
RECURSIVE InOrder(_)
InOrder(lists) ==
    IF Len(lists) = 0 THEN <<>> ELSE Head(lists) \o InOrder(Tail(lists))

TableOf(fs) == [n \in DOMAIN fs |-> fs[n].table]

ColumnOf(fs) == [n \in DOMAIN fs |-> <<fs[n].table, fs[n].column>>]

\* Every column of every table as <<table name, column name>>, in
\* declaration order.
DeclaredColumns ==
    InOrder([i \in DOMAIN tables |->
                [c \in DOMAIN tables[i].columns |->
                    <<tables[i].name, tables[i].columns[c].name>>]])

\* C13: the findings of one check come in table declaration order, then in
\* column order within the table; relationship findings come in ascending
\* relationship index.
C13_OrderWithinCheck ==
    Validated =>
        /\ TableOf(SelectSeq(errors, IsDuplicateTable)) =
               InOrder([i \in DOMAIN tables |->
                           IF \E j \in 1..(i - 1) : tables[j].name = tables[i].name
                           THEN <<tables[i].name>> ELSE <<>>])
        /\ TableOf(SelectSeq(errors, IsMissingPrimaryKey)) =
               InOrder([i \in DOMAIN tables |->
                           IF HasPrimaryKey(tables[i]) THEN <<>> ELSE <<tables[i].name>>])
        /\ ColumnOf(SelectSeq(errors, IsDuplicateColumn)) =
               InOrder([i \in DOMAIN tables |->
                           InOrder([c \in DOMAIN tables[i].columns |->
                                       IF c \in RepeatedColumns(tables[i])
                                       THEN <<<<tables[i].name, tables[i].columns[c].name>>>>
                                       ELSE <<>>])])
        /\ SubsequenceFrom(ColumnOf(SelectSeq(errors, IsForeignKey)), 1,
                           DeclaredColumns, 1)
        /\ LET ends == SelectSeq(errors, IsEndpointError)
               warns == SelectSeq(errors, IsMismatch)
           IN /\ \A m, n \in DOMAIN ends :
                     m < n => ends[m].relationship <= ends[n].relationship
              /\ \A m, n \in DOMAIN warns :
                     m < n => warns[m].relationship < warns[n].relationship

\* Two findings of different locators in each of a table check, a column
\* check and a relationship check.
C13_Witness ==
    /\ Validated
    /\ \E m, n \in DOMAIN errors :
           /\ IsMissingPrimaryKey(errors[m]) /\ IsMissingPrimaryKey(errors[n])
           /\ errors[m].table # errors[n].table
    /\ \E m, n \in DOMAIN errors :
           /\ IsForeignKey(errors[m]) /\ IsForeignKey(errors[n])
           /\ errors[m].column # errors[n].column
    /\ \E m, n \in DOMAIN errors :
           /\ IsEndpointError(errors[m]) /\ IsEndpointError(errors[n])
           /\ errors[m].relationship # errors[n].relationship

SchemaTableNames == {tables[i].name : i \in DOMAIN tables}

SchemaColumnNames ==
    UNION {{tables[i].columns[c].name : c \in DOMAIN tables[i].columns} :
               i \in DOMAIN tables}

TablesNamed(name) == {i \in DOMAIN tables : tables[i].name = name}

\* C14: a table name that occurs k >= 2 times gets exactly k-1 errors
\* 'Duplicate table name' carrying that name in locator and message, a name
\* that occurs once gets none.
C14_DuplicateTableNames ==
    Validated =>
        /\ \A name \in SchemaTableNames :
               Count(errors, LAMBDA f : IsDuplicateTable(f) /\ f.table = name)
                   = Cardinality(TablesNamed(name)) - 1
        /\ \A n \in DOMAIN errors :
               IsDuplicateTable(errors[n]) => errors[n].table \in SchemaTableNames

\* One name three times, another name once.
C14_Witness ==
    /\ Validated
    /\ \E name \in SchemaTableNames : Cardinality(TablesNamed(name)) = 3
    /\ Count(errors, IsDuplicateTable) = 2

\* The columns of table i that repeat the column name `column`.
RepeatsOf(i, column) ==
    {c \in RepeatedColumns(tables[i]) : tables[i].columns[c].name = column}

\* C15: a column name that occurs k >= 2 times in the column list of a table
\* gets exactly k-1 duplicate-column errors located at (table, column), a
\* name that occurs once in its table gets none, whatever other tables hold.
\* Tables that share a name share the locator, and their errors add up.
C15_DuplicateColumnNames ==
    Validated =>
        /\ \A name \in SchemaTableNames : \A column \in SchemaColumnNames :
               Count(errors, LAMBDA f : /\ IsDuplicateColumn(f)
                                        /\ f.table = name
                                        /\ f.column = column)
                   = Cardinality(UNION {{<<i, c>> : c \in RepeatsOf(i, column)} :
                                            i \in TablesNamed(name)})
        /\ \A n \in DOMAIN errors :
               IsDuplicateColumn(errors[n]) =>
                   /\ errors[n].table \in SchemaTableNames
                   /\ errors[n].column \in SchemaColumnNames

\* A table with one column name three times, and a table of another name
\* that has the same column name once.
C15_Witness ==
    /\ Validated
    /\ \E i, j \in DOMAIN tables :
           /\ tables[i].name # tables[j].name
           /\ Cardinality(RepeatsOf(i, "id")) = 2
           /\ findColumn(tables[j].columns, "id") # 0
           /\ RepeatedColumns(tables[j]) = {}
    /\ Count(errors, IsDuplicateColumn) = 2

\* C16: a table without a primary_key column gets exactly one
\* missing-primary-key warning located at the table, a table with one gets
\* none.  Tables that share a name share the locator.
C16_MissingPrimaryKey ==
    Validated =>
        /\ \A name \in SchemaTableNames :
               Count(errors, LAMBDA f : IsMissingPrimaryKey(f) /\ f.table = name)
                   = Cardinality({i \in TablesNamed(name) : ~HasPrimaryKey(tables[i])})
        /\ \A n \in DOMAIN errors :
               IsMissingPrimaryKey(errors[n]) =>
                   /\ errors[n].table \in SchemaTableNames
                   /\ errors[n].column = Undefined

\* A table without primary key beside a table that has one among other
\* columns.
C16_Witness ==
    /\ Validated
    /\ \E i, j \in DOMAIN tables :
           /\ tables[i].name # tables[j].name
           /\ ~HasPrimaryKey(tables[i])
           /\ HasPrimaryKey(tables[j])
           /\ \E c \in DOMAIN tables[j].columns : ~tables[j].columns[c].primary_key
    /\ Count(errors, IsMissingPrimaryKey) = 1

\* The table a name stands for: of the tables that share it, the last.
Resolved(name) ==
    tables[CHOOSE i \in TablesNamed(name) : \A j \in TablesNamed(name) : j <= i]

\* The error messages an endpoint (table name, column name) calls for.
EndpointErrors(name, column) ==
    IF TablesNamed(name) = {}
    THEN <<"Relationship references non-existent table: " \o name>>
    ELSE IF \A c \in DOMAIN Resolved(name).columns : Resolved(name).columns[c].name # column
    THEN <<"Column '" \o column \o "' does not exist in table '" \o name \o "'">>
    ELSE <<>>

\* C17: for the relationship at index i, each endpoint whose table name
\* matches no table gets an error located at relationship i, each endpoint
\* whose table exists without the endpoint's column gets an error located at
\* relationship i, and an endpoint whose table and column exist gets none.
C17_EndpointErrors ==
    Validated =>
        /\ \A k \in DOMAIN relationships :
               LET rel == relationships[k]
                   from == EndpointErrors(rel.from_table, rel.from_column)
                   to == EndpointErrors(rel.to_table, rel.to_column)
                   located == SelectSeq(errors,
                                  LAMBDA f : IsEndpointError(f) /\ f.relationship = k - 1)
               IN /\ Len(located) = Len(from) + Len(to)
                  /\ {located[n].message : n \in DOMAIN located} = Range(from \o to)
                  /\ \A n \in DOMAIN located :
                         located[n].table = Undefined /\ located[n].column = Undefined
        /\ \A n \in DOMAIN errors :
               IsEndpointError(errors[n]) =>
                   errors[n].relationship + 1 \in DOMAIN relationships

\* A relationship with an endpoint of no table beside a relationship with an
\* endpoint of no such column in a table whose name an earlier table with
\* that column shares.
C17_Witness ==
    /\ Validated
    /\ \E k \in DOMAIN relationships :
           /\ TablesNamed(relationships[k].from_table) = {}
           /\ EndpointErrors(relationships[k].to_table, relationships[k].to_column) = <<>>
    /\ \E k \in DOMAIN relationships :
           /\ TablesNamed(relationships[k].to_table) = {}
           /\ TablesNamed(relationships[k].from_table) # {}
           /\ EndpointErrors(relationships[k].from_table, relationships[k].from_column) # <<>>
           /\ \E i \in TablesNamed(relationships[k].from_table) :
                  findColumn(tables[i].columns, relationships[k].from_column) # 0
    /\ Count(errors, IsEndpointError) = 3

\* C18: called on any relationships, validateSchema returns for the
\* relationship at index i exactly one warning located at relationship i
\* when (cardinality, relationship_type) is outside the mapping and none when
\* it is inside; a cardinality that is missing or none of 1:1, 1:N, N:M always
\* gets the warning.
C18_CardinalityMismatch ==
    Called =>
        /\ last.a # "TypeError"
        /\ \A k \in DOMAIN relationships :
               LET warnings == Count(errors,
                                   LAMBDA f : IsMismatch(f) /\ f.relationship = k - 1)
               IN /\ warnings = IF InMapping(relationships[k]) THEN 0 ELSE 1
                  /\ relationships[k].cardinality \notin {"1:1", "1:N", "N:M"}
                         => warnings = 1
        /\ \A n \in DOMAIN errors :
               IsMismatch(errors[n]) =>
                   errors[n].relationship + 1 \in DOMAIN relationships

\* Every column of the schema as <<table position, column position>>.
SchemaColumns ==
    UNION {{<<i, c>> : c \in DOMAIN tables[i].columns} : i \in DOMAIN tables}

\* C19: every column that carries a foreign_key string, the empty string
\* included, that is not of the shape identifier(identifier) gets an error
\* located at (table, column).
C19_MalformedForeignKey ==
    Validated =>
        \A ic \in SchemaColumns :
            LET table == tables[ic[1]]
                column == table.columns[ic[2]]
            IN (column.foreign_key # Undefined /\ fkMatch(column.foreign_key) = <<>>) =>
                   \E n \in DOMAIN errors :
                       /\ errors[n].type = "error"
                       /\ errors[n].table = table.name
                       /\ errors[n].column = column.name
                       /\ errors[n].message =
                              "Invalid foreign key format in '" \o table.name \o "."
                                  \o column.name \o "': " \o column.foreign_key

\* The errors of the references that do not resolve.
IsReferenceError(f) ==
    /\ f.type = "error"
    /\ IsForeignKey(f)
    /\ Len(f.message) >= Len("Foreign key in ")
    /\ SubSeq(f.message, 1, Len("Foreign key in ")) = "Foreign key in "

\* The error message the well-formed reference of a column calls for, if any.
ReferenceErrors(table, column) ==
    LET fk == fkMatch(column.foreign_key)
        where == "Foreign key in '" \o table.name \o "." \o column.name \o "'"
    IN IF TablesNamed(fk[1]) = {}
       THEN <<where \o " references non-existent table '" \o fk[1] \o "'">>
       ELSE IF \A c \in DOMAIN Resolved(fk[1]).columns :
                   Resolved(fk[1]).columns[c].name # fk[2]
       THEN <<where \o " references non-existent column '" \o fk[1] \o "." \o fk[2] \o "'">>
       ELSE <<>>

\* The columns named (name, column) that carry a well-formed reference.
WellFormedAt(name, column) ==
    {ic \in SchemaColumns :
        /\ tables[ic[1]].name = name
        /\ tables[ic[1]].columns[ic[2]].name = column
        /\ tables[ic[1]].columns[ic[2]].foreign_key # Undefined
        /\ fkMatch(tables[ic[1]].columns[ic[2]].foreign_key) # <<>>}

\* C20: a column whose foreign_key is a well-formed T(C) gets exactly one
\* error located at (table, column) when no table is named T, exactly one
\* when T has no column C, and none when both exist.  Columns that share
\* table name and column name share the locator, and their errors add up.
C20_DanglingForeignKey ==
    Validated =>
        /\ \A name \in SchemaTableNames : \A column \in SchemaColumnNames :
               LET sources == WellFormedAt(name, column)
                   Expected(ic) ==
                       ReferenceErrors(tables[ic[1]], tables[ic[1]].columns[ic[2]])
                   located == SelectSeq(errors,
                                  LAMBDA f : /\ IsReferenceError(f)
                                             /\ f.table = name
                                             /\ f.column = column)
               IN /\ Len(located) = Cardinality({ic \in sources : Expected(ic) # <<>>})
                  /\ {located[n].message : n \in DOMAIN located}
                         = UNION {Range(Expected(ic)) : ic \in sources}
        /\ \A n \in DOMAIN errors :
               IsReferenceError(errors[n]) =>
                   /\ errors[n].table \in SchemaTableNames
                   /\ errors[n].column \in SchemaColumnNames

\* A reference to no table, a reference to no such column of a table, and a
\* reference that resolves.
C20_Witness ==
    /\ Validated
    /\ \E ic, jd, ke \in SchemaColumns :
           LET Fk(x) == tables[x[1]].columns[x[2]].foreign_key
           IN /\ Fk(ic) # Undefined /\ Fk(jd) # Undefined /\ Fk(ke) # Undefined
              /\ fkMatch(Fk(ic)) # <<>> /\ fkMatch(Fk(jd)) # <<>> /\ fkMatch(Fk(ke)) # <<>>
              /\ TablesNamed(fkMatch(Fk(ic))[1]) = {}
              /\ TablesNamed(fkMatch(Fk(jd))[1]) # {}
              /\ ReferenceErrors(tables[jd[1]], tables[jd[1]].columns[jd[2]]) # <<>>
              /\ ReferenceErrors(tables[ke[1]], tables[ke[1]].columns[ke[2]]) = <<>>
    /\ Count(errors, IsReferenceError) = 2

\* The warnings of the foreign-key pass.
IsNonUniqueWarning(f) == f.type = "warning" /\ f.column # Undefined

\* The column a well-formed reference that resolves stands for: the first
\* column of that name in the table the name stands for.
Referent(fk) ==
    LET columns == Resolved(fk[1]).columns
    IN columns[CHOOSE c \in DOMAIN columns :
                   /\ columns[c].name = fk[2]
                   /\ \A d \in 1..(c - 1) : columns[d].name # fk[2]]

\* The columns named (name, column) whose reference resolves to a column.
ResolvedAt(name, column) ==
    {ic \in WellFormedAt(name, column) :
        ReferenceErrors(tables[ic[1]], tables[ic[1]].columns[ic[2]]) = <<>>}

\* C21: a column whose foreign_key resolves to an existing column R gets the
\* non-unique-referent warning exactly when R has neither primary_key nor
\* unique set; a primary_key referent counts as unique whatever its unique
\* and nullable flags.  Columns that share table name and column name share
\* the locator, and their warnings add up.
C21_NonUniqueReferent ==
    Validated =>
        /\ \A name \in SchemaTableNames : \A column \in SchemaColumnNames :
               LET NonUnique(ic) ==
                       LET fk == fkMatch(tables[ic[1]].columns[ic[2]].foreign_key)
                       IN ~Referent(fk).primary_key /\ ~Referent(fk).unique
                   Message(ic) ==
                       LET fk == fkMatch(tables[ic[1]].columns[ic[2]].foreign_key)
                       IN "Foreign key in '" \o name \o "." \o column
                              \o "' references non-unique column '"
                              \o fk[1] \o "." \o fk[2] \o "'"
                   located == SelectSeq(errors,
                                  LAMBDA f : /\ IsNonUniqueWarning(f)
                                             /\ f.table = name
                                             /\ f.column = column)
                   sources == {ic \in ResolvedAt(name, column) : NonUnique(ic)}
               IN /\ Len(located) = Cardinality(sources)
                  /\ {located[n].message : n \in DOMAIN located}
                         = {Message(ic) : ic \in sources}
        /\ \A n \in DOMAIN errors :
               IsNonUniqueWarning(errors[n]) =>
                   /\ errors[n].table \in SchemaTableNames
                   /\ errors[n].column \in SchemaColumnNames

\* A reference to a primary key that is nullable and not flagged unique,
\* which gets no warning, beside a reference to a column with neither flag,
\* which gets the only one.
C21_Witness ==
    /\ Validated
    /\ \E ic, jd \in SchemaColumns :
           LET Ref(x) == Referent(fkMatch(tables[x[1]].columns[x[2]].foreign_key))
           IN /\ ic \in ResolvedAt(tables[ic[1]].name, tables[ic[1]].columns[ic[2]].name)
              /\ jd \in ResolvedAt(tables[jd[1]].name, tables[jd[1]].columns[jd[2]].name)
              /\ Ref(ic).primary_key /\ ~Ref(ic).unique /\ Ref(ic).nullable
              /\ ~Ref(jd).primary_key /\ ~Ref(jd).unique
    /\ Count(errors, IsNonUniqueWarning) = 1

RECURSIVE SumSeq(_)
SumSeq(numbers) ==
    IF Len(numbers) = 0 THEN 0 ELSE Head(numbers) + SumSeq(Tail(numbers))

\* How many findings the foreign-key check has for one column that carries a
\* non-empty reference string: one when it is malformed, dangling or stands
\* for a column that is neither primary key nor unique.
ForeignKeyCount(table, column) ==
    IF column.foreign_key = Undefined \/ column.foreign_key = "" THEN 0
    ELSE IF fkMatch(column.foreign_key) = <<>> THEN 1
    ELSE IF ReferenceErrors(table, column) # <<>> THEN 1
    ELSE IF /\ ~Referent(fkMatch(column.foreign_key)).primary_key
            /\ ~Referent(fkMatch(column.foreign_key)).unique THEN 1
    ELSE 0

\* How many findings the six checks have for the whole schema.
SchemaFindingCount ==
    SumSeq([i \in DOMAIN tables |->
               (IF \E j \in 1..(i - 1) : tables[j].name = tables[i].name THEN 1 ELSE 0)
                   + TablePassCount(tables[i])
                   + SumSeq([c \in DOMAIN tables[i].columns |->
                                ForeignKeyCount(tables[i], tables[i].columns[c])])])
        + SumSeq([k \in DOMAIN relationships |->
                     Len(EndpointErrors(relationships[k].from_table,
                                        relationships[k].from_column))
                         + Len(EndpointErrors(relationships[k].to_table,
                                              relationships[k].to_column))
                         + (IF InMapping(relationships[k]) THEN 0 ELSE 1)])

\* C22: validateSchema never stops early: whatever the findings so far, every
\* check runs on every table, column and relationship, and the list that
\* comes back holds the findings of every check for the whole schema.
C22_NeverStopsEarly ==
    Called =>
        /\ last.a # "TypeError"
        /\ Len(errors) = SchemaFindingCount

\* The schema is fully consistent.
Consistent ==
    /\ \A i, j \in DOMAIN tables : i # j => tables[i].name # tables[j].name
    /\ \A i \in DOMAIN tables :
           /\ RepeatedColumns(tables[i]) = {}
           /\ HasPrimaryKey(tables[i])
    /\ \A k \in DOMAIN relationships :
           /\ EndpointErrors(relationships[k].from_table,
                             relationships[k].from_column) = <<>>
           /\ EndpointErrors(relationships[k].to_table,
                             relationships[k].to_column) = <<>>
           /\ InMapping(relationships[k])
    /\ \A ic \in SchemaColumns :
           LET column == tables[ic[1]].columns[ic[2]]
           IN column.foreign_key # Undefined =>
                  /\ fkMatch(column.foreign_key) # <<>>
                  /\ ReferenceErrors(tables[ic[1]], column) = <<>>
                  /\ \/ Referent(fkMatch(column.foreign_key)).primary_key
                     \/ Referent(fkMatch(column.foreign_key)).unique

\* C23: when validateSchema returns the empty list the schema is fully
\* consistent.
C23_EmptyMeansConsistent ==
    (Validated /\ errors = <<>>) => Consistent

\* C27: getRelationshipErrors, handed the name-keyed table map, returns index
\* i exactly when validateSchema returns an error located at relationship i,
\* each index once and in ascending order; a cardinality/type mismatch alone
\* puts no index in the result.
C27_ErrorIndexesMatchFindings ==
    Validated =>
        /\ \A k \in DOMAIN relationships :
               (\E m \in DOMAIN errorRelationships : errorRelationships[m] = k - 1)
                   <=> (\E n \in DOMAIN errors :
                            errors[n].type = "error" /\ errors[n].relationship = k - 1)
        /\ \A m \in DOMAIN errorRelationships :
               errorRelationships[m] + 1 \in DOMAIN relationships
        /\ \A m, n \in DOMAIN errorRelationships :
               m < n => errorRelationships[m] < errorRelationships[n]

\* A relationship with a mismatch warning and no error, which is not in the
\* result, before a relationship with a mismatch warning and an endpoint
\* error, which is.
C27_Witness ==
    /\ Validated
    /\ Len(relationships) = 2
    /\ errorRelationships = <<1>>
    /\ Count(errors, LAMBDA f : IsMismatch(f) /\ f.relationship = 0) = 1
    /\ Count(errors, LAMBDA f : IsMismatch(f) /\ f.relationship = 1) = 1
    /\ Count(errors, LAMBDA f : IsEndpointError(f) /\ f.relationship = 1) = 1

NoErrorFinding(findings) == \A n \in DOMAIN findings : findings[n].type # "error"

\* C28: when validateSchema has no error for a schema that holds an N:M
\* relationship between existing tables A and B, it has no error for the
\* schema createJunctionTable(A, B) leaves, A = B and tables without a column
\* id included.
C28_JunctionKeepsSchemaValid ==
    [][(/\ JunctionStep
        /\ last'.a \in TableNames(tables)
        /\ last'.b \in TableNames(tables)
        /\ NoErrorFinding(validateSchema(tables, relationships)))
          => NoErrorFinding(validateSchema(tables', relationships'))]_vars

-----------------------------------------------------------------------------
(* Column editing in TableNode (SQLEditor.tsx, first TableNode) *)

\* What the user can type into the column-name input.
ColumnNameInputs == {"id", "title"}

\* TableNode.handleAddColumn: the column appended to table.columns.
newColumn == Col("new_column", "VARCHAR(255)", TRUE, FALSE, Undefined, FALSE, Undefined)

\* table.columns.filter((_, i) => i !== index), index counted from 1 here.
withoutColumn(columns, index) ==
    [c \in 1..(Len(columns) - 1) |-> IF c < index THEN columns[c] ELSE columns[c + 1]]

\* tempDefault || undefined, tempDefault loaded as column.default || ''.
savedDefault(column) ==
    IF column.default \in {"", Undefined} THEN Undefined ELSE column.default

\* TableNode.handleAddColumn on node i -> onUpdate -> App.updateTable(table.id, { columns })
HandleAddColumn(i) ==
    /\ Step
    /\ i \in DOMAIN tables
    /\ Len(tables[i].columns) < MaxCols
    /\ tables' = updateTable(tables, tables[i].id,
                             [columns |-> Append(tables[i].columns, newColumn)])
    /\ last' = Op("addColumn", i, Len(tables[i].columns) + 1, "", "")
    /\ UNCHANGED <<relationships, now>>

\* TableNode.handleSaveColumn(index) on node i, after handleEditColumn(index)
\* loaded the column and the user changed the name and the PK checkbox.
HandleSaveColumn(i, index, tempColumnName, tempPrimaryKey) ==
    /\ Step
    /\ i \in DOMAIN tables
    /\ index \in DOMAIN tables[i].columns
    /\ LET column == tables[i].columns[index]
           saved == Merge(column, [name |-> tempColumnName,
                                   type |-> column.type,
                                   nullable |-> column.nullable,
                                   primary_key |-> tempPrimaryKey,
                                   unique |-> column.unique,
                                   default |-> savedDefault(column)])
       IN tables' = updateTable(tables, tables[i].id,
                                [columns |-> [tables[i].columns EXCEPT ![index] = saved]])
    /\ last' = Op("saveColumn", i, index, "", tempColumnName)
    /\ UNCHANGED <<relationships, now>>

\* handleRemoveColumn without the test of table.columns.length.
HandleRemoveColumn_Unguarded(i, index) ==
    /\ Step
    /\ i \in DOMAIN tables
    /\ index \in DOMAIN tables[i].columns
    /\ tables' = updateTable(tables, tables[i].id,
                             [columns |-> withoutColumn(tables[i].columns, index)])
    /\ last' = Op("removeColumn", i, index, "removed", "")
    /\ UNCHANGED <<relationships, now>>

\* TableNode.handleRemoveColumn(index) on node i: with more than one column
\* onUpdate({ columns }) without the column, else an alert and no update.
HandleRemoveColumn(i, index) ==
    /\ Step
    /\ i \in DOMAIN tables
    /\ index \in DOMAIN tables[i].columns
    /\ IF Len(tables[i].columns) > 1
       THEN /\ tables' = updateTable(tables, tables[i].id,
                                     [columns |-> withoutColumn(tables[i].columns, index)])
            /\ last' = Op("removeColumn", i, index, "removed", "")
       ELSE /\ tables' = tables
            /\ last' = Op("removeColumn", i, index, "refused", "")
    /\ UNCHANGED <<relationships, now>>

NextColumns ==
    \/ HandleAddTable
    \/ \E resultTables \in ParseResults : HandleParse(resultTables)
    \/ \E i \in 1..MaxTables : HandleAddColumn(i)
    \/ \E i \in 1..MaxTables, index \in 1..MaxCols, tempColumnName \in ColumnNameInputs,
          tempPrimaryKey \in BOOLEAN :
            HandleSaveColumn(i, index, tempColumnName, tempPrimaryKey)
    \/ \E i \in 1..MaxTables, index \in 1..MaxCols : HandleRemoveColumn(i, index)

SpecColumns == Init /\ [][NextColumns]_vars

EveryTableHasAColumn(ts) == \A i \in DOMAIN ts : Len(ts[i].columns) >= 1

\* C30: handleRemoveColumn on a table with exactly one column leaves the tables
\* unchanged, and no add-column, edit-column or remove-column step (nor the
\* creation of a table) takes a table list where every table has a column to
\* one where some table has none.
C30_LastColumnStays ==
    [][/\ (/\ last'.op = "removeColumn"
           /\ steps' # steps
           /\ Len(tables[last'.i].columns) = 1) => tables' = tables
       /\ EveryTableHasAColumn(tables) => EveryTableHasAColumn(tables')]_vars

\* A removal was refused on a table that an earlier removal had brought down
\* to its last column.
C30_Witness ==
    /\ last.op = "removeColumn"
    /\ last.a = "refused"
    /\ steps >= 3
    /\ Len(tables[last.i].columns) = 1
    /\ tables[last.i].columns[1].name # "id"

-----------------------------------------------------------------------------
(* The SQL editor: parse requests that fail, and what a parse result holds *)

\* The Relationship Inferencer of the backend (spec 4.2): the relationship of
\* one column, when its foreign_key resolves to an existing table and column.
inferredRelationship(tables_, table, column) ==
    IF ~hasForeignKey(column) THEN <<>>
    ELSE LET match == fkMatch(column.foreign_key)
         IN IF match = <<>> THEN <<>>
            ELSE LET refTable == tableMapGet(tables_, match[1])
                 IN IF refTable = 0 THEN <<>>
                    ELSE IF findColumn(tables_[refTable].columns, match[2]) = 0 THEN <<>>
                    ELSE <<Rel(table.name, column.name, match[1], match[2],
                               "many-to-one", "1:N")>>

\* infer_relationships(schema) (spec 4.2, 6): result.relationships of the
\* parse endpoint, in the order of the tables and of their columns.
infer_relationships(tables_) ==
    Flatten([i \in DOMAIN tables_ |->
        Flatten([c \in DOMAIN tables_[i].columns |->
            inferredRelationship(tables_, tables_[i], tables_[i].columns[c])])])

\* How a parse request fails: the endpoint answers with an error status, or
\* fetch (or reading the body) throws.
ParseFailures == {"not ok", "throws"}

\* As HandleParseFails, applying the tables parsed before the failure.
HandleParseFails_AppliesPartial(failure) ==
    /\ Step
    /\ failure \in ParseFailures
    /\ tables' = parsedTables(<<UsersTable>>, now)
    /\ last' = Op("parseFailed", 0, 0, failure, "")
    /\ UNCHANGED <<relationships, now>>

\* SQLEditor.handleParse when the request fails: setOutput(`Error: ...`) and
\* return, or the catch block; onSQLParse is not called.
HandleParseFails(failure) ==
    /\ Step
    /\ failure \in ParseFailures
    /\ last' = Op("parseFailed", 0, 0, failure, "")
    /\ UNCHANGED <<tables, relationships, now>>

NextParse ==
    \/ HandleAddTable
    \/ \E data \in TemplateData : HandleApplyTemplate(data)
    \/ \E i, j \in 1..MaxTables, ci, cj \in 1..MaxCols : OnConnect(i, ci, j, cj)
    \/ \E r \in ParseResults : HandleParse(r)
    \/ \E failure \in ParseFailures : HandleParseFails(failure)

SpecParse == Init /\ [][NextParse]_vars

\* C24: a parse request that fails leaves the table list and the relationship
\* list as they were.
C24_FailedParseAppliesNothing ==
    [][last'.op = "parseFailed" =>
          /\ tables' = tables
          /\ relationships' = relationships]_vars

\* A parse request failed while the application held tables and relationships.
C24_Witness ==
    /\ last.op = "parseFailed"
    /\ tables # <<>>
    /\ relationships # <<>>

\* C26: after a successful parse is applied, the relationship list is the one
\* returned with the parse result, i.e. the relationships inferred from the
\* parsed tables.
C26_ParseReplacesRelationships ==
    [][(last'.op = "parse" /\ steps' # steps) =>
          relationships' = infer_relationships(tables')]_vars

-----------------------------------------------------------------------------
(* App's validation effect: useEffect(..., [tables, relationships]) *)

\* The handlers whose state update replaces the tables array.
TableOps == {"init", "addTable", "saveTableName"}

\* The effect is scheduled by the mount and by every commit that replaced
\* tables or relationships (every handler below calls setTables or
\* setRelationships with a new array); running it clears the schedule.
EffectPending == last.op # "validateSchema"

\* As Effect with the dependency list [tables].
Effect_TablesOnly ==
    /\ last.op \in TableOps
    /\ ValidateSchema

\* App.tsx useEffect: runs once after each commit that changed a dependency.
Effect ==
    /\ EffectPending
    /\ ValidateSchema

NextApp ==
    \/ HandleAddTable
    \/ \E i \in 1..MaxTables, n \in TableNameInputs : HandleSaveTableName(i, n)
    \/ \E i, j \in 1..MaxTables, ci, cj \in 1..MaxCols : OnConnect(i, ci, j, cj)
    \/ \E k \in 1..MaxRels, v \in {"1:1", "1:N", "N:M"} : OnChangeCardinality(k, v)
    \/ \E k \in 1..MaxRels : OnRemoveRelationship(k)
    \/ Effect

\* React runs a scheduled effect: it cannot stay pending forever.
SpecApp == Init /\ [][NextApp]_vars /\ WF_vars(Effect)

\* validationErrors and errorRelationships are those of the current lists.
Synced ==
    /\ errors = validateSchema(tables, relationships)
    /\ errorRelationships = getRelationshipErrors(relationships, tables)

\* C29: once tables or relationships changed (the effect is pending), a state
\* is reached where validationErrors = validateSchema(tables, relationships)
\* and errorRelationships = getRelationshipErrors(relationships, tables), and
\* such a state lasts as long as both lists stay as they are.
C29_EffectCatchesUp ==
    /\ EffectPending ~> (Synced /\ ~EffectPending)
    /\ [][(Synced /\ tables' = tables /\ relationships' = relationships) => Synced']_vars

\* The effect ran after a rename broke a relationship: both results are
\* non-empty and current.
C29_Witness ==
    /\ last.op = "validateSchema"
    /\ errors # <<>>
    /\ errorRelationships # <<>>
    /\ Synced

-----------------------------------------------------------------------------
(* The backend's DDL generator and parser (spec 4.1, 4.3), on token lists: *)
(* an identifier, a keyword, a raw type such as VARCHAR(255), a raw        *)
(* default expression, and each of ( ) , ; is one token.                   *)

Keywords ==
    {"CREATE", "TABLE", "PRIMARY", "KEY", "NOT", "NULL", "UNIQUE", "DEFAULT",
     "REFERENCES", "FOREIGN"}

\* REFERENCES <table>(<column>) of a reference string table(column); a string
\* of another form is emitted as it is.
referenceTokens(foreign_key) ==
    LET match == fkMatch(foreign_key)
    IN IF match = <<>> THEN <<"REFERENCES", foreign_key>>
       ELSE <<"REFERENCES", match[1], "(", match[2], ")">>

\* As generateColumn, never emitting NOT NULL.
generateColumn_NullableOnly(column) ==
    <<column.name, column.type>>
    \o (IF column.primary_key THEN <<"PRIMARY", "KEY">> ELSE <<>>)
    \o (IF column.unique THEN <<"UNIQUE">> ELSE <<>>)
    \o (IF column.default \notin {Undefined, ""}
        THEN <<"DEFAULT", column.default>> ELSE <<>>)
    \o (IF hasForeignKey(column) THEN referenceTokens(column.foreign_key) ELSE <<>>)

\* One column definition: name, type, then its modifiers, the foreign key
\* inline.
generateColumn(column) ==
    <<column.name, column.type>>
    \o (IF column.primary_key THEN <<"PRIMARY", "KEY">> ELSE <<>>)
    \o (IF ~column.nullable THEN <<"NOT", "NULL">> ELSE <<>>)
    \o (IF column.unique THEN <<"UNIQUE">> ELSE <<>>)
    \o (IF column.default \notin {Undefined, ""}
        THEN <<"DEFAULT", column.default>> ELSE <<>>)
    \o (IF hasForeignKey(column) THEN referenceTokens(column.foreign_key) ELSE <<>>)

RECURSIVE Join(_, _)
Join(lists, sep) ==
    IF Len(lists) = 0 THEN <<>>
    ELSE IF Len(lists) = 1 THEN lists[1]
    ELSE lists[1] \o <<sep>> \o Join(Tail(lists), sep)

\* One CREATE TABLE statement, the columns in the table's column order.
generateTable(table) ==
    <<"CREATE", "TABLE", table.name, "(">>
    \o Join([c \in DOMAIN table.columns |-> generateColumn(table.columns[c])], ",")
    \o <<")", ";">>

\* generate(schema): one statement per table; layout positions play no part.
generate(tables_) ==
    Flatten([i \in DOMAIN tables_ |-> generateTable(tables_[i])])

\* The pieces of tokens between the separators met outside any parentheses,
\* from position p on; current is the piece being read.
RECURSIVE splitTop(_, _, _, _, _)
splitTop(tokens, sep, p, depth, current) ==
    IF p > Len(tokens) THEN <<current>>
    ELSE IF tokens[p] = sep /\ depth = 0
         THEN <<current>> \o splitTop(tokens, sep, p + 1, 0, <<>>)
         ELSE splitTop(tokens, sep, p + 1,
                       depth + (IF tokens[p] = "(" THEN 1
                                ELSE IF tokens[p] = ")" THEN -1 ELSE 0),
                       Append(current, tokens[p]))

startsWith(tokens, prefix) ==
    /\ Len(tokens) >= Len(prefix)
    /\ SubSeq(tokens, 1, Len(prefix)) = prefix

dropTokens(tokens, n) == SubSeq(tokens, n + 1, Len(tokens))

IsIdentifier(token) == IsWord(token) /\ token \notin Keywords

\* The per-column modifiers: PRIMARY KEY, NOT NULL, UNIQUE, DEFAULT <expr>,
\* REFERENCES <table>(<column>); anything else is a malformed definition.
RECURSIVE parseModifiers(_, _)
parseModifiers(tokens, column) ==
    IF tokens = <<>> THEN [ok |-> TRUE, column |-> column]
    ELSE IF startsWith(tokens, <<"PRIMARY", "KEY">>)
    THEN parseModifiers(dropTokens(tokens, 2), [column EXCEPT !.primary_key = TRUE])
    ELSE IF startsWith(tokens, <<"NOT", "NULL">>)
    THEN parseModifiers(dropTokens(tokens, 2), [column EXCEPT !.nullable = FALSE])
    ELSE IF startsWith(tokens, <<"UNIQUE">>)
    THEN parseModifiers(dropTokens(tokens, 1), [column EXCEPT !.unique = TRUE])
    ELSE IF /\ startsWith(tokens, <<"DEFAULT">>)
            /\ Len(tokens) >= 2
            /\ tokens[2] \notin Keywords \cup {"(", ")", ","}
    THEN parseModifiers(dropTokens(tokens, 2), [column EXCEPT !.default = tokens[2]])
    ELSE IF /\ startsWith(tokens, <<"REFERENCES">>)
            /\ Len(tokens) >= 5
            /\ IsIdentifier(tokens[2]) /\ tokens[3] = "("
            /\ IsIdentifier(tokens[4]) /\ tokens[5] = ")"
    THEN parseModifiers(dropTokens(tokens, 5),
             [column EXCEPT !.foreign_key = tokens[2] \o "(" \o tokens[4] \o ")"])
    ELSE [ok |-> FALSE, column |-> column]

\* One column definition: <name> <type> <modifiers>; nullable unless told
\* otherwise.
parseColumn(def) ==
    IF \/ Len(def) < 2
       \/ ~IsIdentifier(def[1])
       \/ def[2] \in Keywords \cup {"(", ")", ","}
    THEN [ok |-> FALSE,
          column |-> Col("", "", TRUE, FALSE, Undefined, FALSE, Undefined)]
    ELSE parseModifiers(dropTokens(def, 2),
             Col(def[1], def[2], TRUE, FALSE, Undefined, FALSE, Undefined))

\* A table-level constraint starts with PRIMARY or FOREIGN.
isConstraint(def) == Len(def) >= 1 /\ def[1] \in {"PRIMARY", "FOREIGN"}

\* PRIMARY KEY (<col>, ...): the columns it names, when it is well formed.
keyColumns(def) ==
    IF /\ Len(def) >= 5
       /\ startsWith(def, <<"PRIMARY", "KEY", "(">>)
       /\ def[Len(def)] = ")"
    THEN LET names == splitTop(SubSeq(def, 4, Len(def) - 1), ",", 1, 0, <<>>)
         IN IF \A n \in DOMAIN names : Len(names[n]) = 1 /\ IsIdentifier(names[n][1])
            THEN {names[n][1] : n \in DOMAIN names}
            ELSE {}
    ELSE {}

\* FOREIGN KEY (<col>) REFERENCES <table>(<column>), when it is well formed.
isForeignKey(def) ==
    /\ Len(def) = 10
    /\ startsWith(def, <<"FOREIGN", "KEY", "(">>)
    /\ IsIdentifier(def[4]) /\ def[5] = ")" /\ def[6] = "REFERENCES"
    /\ IsIdentifier(def[7]) /\ def[8] = "("
    /\ IsIdentifier(def[9]) /\ def[10] = ")"

\* A constraint is accepted when it is well formed and names columns of the
\* table.
constraintOk(def, names) ==
    \/ keyColumns(def) # {} /\ keyColumns(def) \subseteq names
    \/ isForeignKey(def) /\ def[4] \in names

\* The column with the table-level constraints that name it folded onto it.
foldConstraints(column, constraints) ==
    LET keys == UNION {keyColumns(constraints[k]) : k \in DOMAIN constraints}
        refs == {k \in DOMAIN constraints :
                    isForeignKey(constraints[k]) /\ constraints[k][4] = column.name}
    IN [column EXCEPT
          !.primary_key = @ \/ column.name \in keys,
          !.foreign_key =
              IF refs = {} THEN @
              ELSE LET k == CHOOSE r \in refs : \A q \in refs : q <= r
                   IN constraints[k][7] \o "(" \o constraints[k][9] \o ")"]

\* One statement: CREATE TABLE <name> ( <definitions> ).
parseTable(stmt) ==
    LET failed == [ok |-> FALSE, table |-> [name |-> "", columns |-> <<>>]]
    IN IF ~(/\ Len(stmt) >= 5
            /\ startsWith(stmt, <<"CREATE", "TABLE">>)
            /\ IsIdentifier(stmt[3])
            /\ stmt[4] = "("
            /\ stmt[Len(stmt)] = ")")
       THEN failed
       ELSE LET defs == splitTop(SubSeq(stmt, 5, Len(stmt) - 1), ",", 1, 0, <<>>)
                columnDefs == SelectSeq(defs, LAMBDA d : ~isConstraint(d))
                constraints == SelectSeq(defs, isConstraint)
                parsed == [c \in DOMAIN columnDefs |-> parseColumn(columnDefs[c])]
                names == {parsed[c].column.name : c \in DOMAIN parsed}
            IN IF \/ Len(columnDefs) = 0
                  \/ \E c \in DOMAIN parsed : ~parsed[c].ok
                  \/ \E k \in DOMAIN constraints : ~constraintOk(constraints[k], names)
               THEN failed
               ELSE [ok |-> TRUE,
                     table |-> [name |-> stmt[3],
                                columns |-> [c \in DOMAIN parsed |->
                                    foldConstraints(parsed[c].column, constraints)]]]

\* parse(ddl_text): the tables of the statements, or a ParseError (ok FALSE)
\* for an unterminated or malformed statement; never a part of the tables.
parse(tokens) ==
    LET pieces == splitTop(tokens, ";", 1, 0, <<>>)
        statements == SubSeq(pieces, 1, Len(pieces) - 1)
        parsed == [k \in DOMAIN statements |-> parseTable(statements[k])]
    IN IF \/ pieces[Len(pieces)] # <<>>
          \/ \E k \in DOMAIN parsed : ~parsed[k].ok
       THEN [ok |-> FALSE, tables |-> <<>>]
       ELSE [ok |-> TRUE, tables |-> [k \in DOMAIN parsed |-> parsed[k].table]]

-----------------------------------------------------------------------------
(* The SQL editor against that backend *)

\* Schemas to generate from: users and posts as the editor's initial text
\* declares them, a primary key left nullable, a dangling reference, a column
\* named by a reserved word, a reference string of another form.
RoundTripTables ==
    {SchemaTable("users",
        <<Col("id", "INTEGER", FALSE, TRUE, Undefined, FALSE, Undefined),
          Col("email", "VARCHAR(255)", TRUE, FALSE, "", TRUE, Undefined)>>),
     SchemaTable("posts",
        <<Col("id", "INTEGER", TRUE, TRUE, Undefined, FALSE, Undefined),
          Col("user_id", "INTEGER", FALSE, FALSE, "users(id)", FALSE, Undefined),
          Col("created_at", "TIMESTAMP", TRUE, FALSE, Undefined, FALSE,
              "CURRENT_TIMESTAMP")>>),
     SchemaTable("tags",
        <<Col("name", "TEXT", FALSE, TRUE, Undefined, TRUE, Undefined),
          Col("ref", "INTEGER", TRUE, FALSE, "ghost(id)", FALSE, "0")>>),
     SchemaTable("orders",
        <<Col("PRIMARY", "INTEGER", FALSE, TRUE, Undefined, FALSE, Undefined)>>),
     SchemaTable("items",
        <<Col("id", "INTEGER", FALSE, TRUE, Undefined, FALSE, Undefined),
          Col("ref", "INTEGER", TRUE, FALSE, "users.id", FALSE, Undefined)>>)}

\* What the user can type into the editor: table-level constraints, and a
\* statement without its terminator.
SqlInputs ==
    {<<"CREATE", "TABLE", "users", "(", "id", "INTEGER", ",",
         "PRIMARY", "KEY", "(", "id", ")", ")", ";",
       "CREATE", "TABLE", "posts", "(", "id", "INTEGER", ",",
         "user_id", "INTEGER", "NOT", "NULL", ",",
         "PRIMARY", "KEY", "(", "id", ",", "user_id", ")", ",",
         "FOREIGN", "KEY", "(", "user_id", ")",
           "REFERENCES", "users", "(", "id", ")", ")", ";">>,
     <<"CREATE", "TABLE", "users", "(", "id", "INTEGER", ")">>}

InitRoundTrip ==
    /\ tables \in SeqsUpTo(RoundTripTables, MaxSchemaTables)
    /\ relationships = <<>>
    /\ now = 1
    /\ last = Op("init", 0, 0, "", "")
    /\ steps = 0
    /\ errors = <<>>
    /\ errorRelationships = <<>>
    /\ sql = InitialSql

\* The textarea's onChange: setSql(e.target.value)
HandleEditSql(text) ==
    /\ steps < MaxSteps
    /\ steps' = steps + 1
    /\ sql' = text
    /\ last' = Op("editSql", 0, 0, "", "")
    /\ UNCHANGED <<tables, relationships, now, errors, errorRelationships>>

\* SQLEditor.handleGenerateSQL with an ok response: setSql(result.sql)
HandleGenerateSQL ==
    /\ steps < MaxSteps
    /\ steps' = steps + 1
    /\ sql' = generate(tables)
    /\ last' = Op("generateSQL", 0, 0, "", "")
    /\ UNCHANGED <<tables, relationships, now, errors, errorRelationships>>

\* SQLEditor.handleParse of the editor's text: the backend parses sql and
\* the handler goes on as HandleParse or as HandleParseFails.
HandleParseSql ==
    IF parse(sql).ok
    THEN HandleParse(parse(sql).tables)
    ELSE HandleParseFails("not ok")

NextRoundTrip ==
    \/ \E text \in SqlInputs : HandleEditSql(text)
    \/ HandleGenerateSQL
    \/ HandleParseSql

SpecRoundTrip == InitRoundTrip /\ [][NextRoundTrip]_vars

\* Only constructs the DDL can express: identifiers that are no reserved
\* words, at least one column per table, one-token types and defaults,
\* references of the form table(column).
Representable(ts) ==
    \A i \in DOMAIN ts :
        /\ IsIdentifier(ts[i].name)
        /\ Len(ts[i].columns) >= 1
        /\ \A c \in DOMAIN ts[i].columns :
              LET column == ts[i].columns[c]
              IN /\ IsIdentifier(column.name)
                 /\ column.type \notin Keywords \cup {"", "(", ")", ","}
                 /\ column.default \notin Keywords \cup {"(", ")", ","}
                 /\ hasForeignKey(column) => fkMatch(column.foreign_key) # <<>>

\* The foreign-key target of a column, Undefined when it has none.
fkTarget(column) ==
    IF hasForeignKey(column) THEN column.foreign_key ELSE Undefined

TablesNamedIn(ts, name) == {i \in DOMAIN ts : ts[i].name = name}

\* The columns of the tables named name: names, constraint flags, targets.
ColumnSet(ts, name) ==
    UNION {{[name |-> ts[i].columns[c].name,
             nullable |-> ts[i].columns[c].nullable,
             primary_key |-> ts[i].columns[c].primary_key,
             unique |-> ts[i].columns[c].unique,
             foreign_key |-> fkTarget(ts[i].columns[c])] :
                c \in DOMAIN ts[i].columns} : i \in TablesNamedIn(ts, name)}

\* The equivalence of spec 4.3.
Equivalent(ts1, ts2) ==
    /\ TableNames(ts1) = TableNames(ts2)
    /\ \A name \in TableNames(ts1) : ColumnSet(ts1, name) = ColumnSet(ts2, name)

\* C25: for a schema of representable constructs, parsing the generated SQL
\* succeeds and gives tables equivalent to the schema's (same table names,
\* same columns with the same flags and foreign-key targets), from which the
\* same relationships are inferred.
C25_RoundTrip ==
    (last.op = "generateSQL" /\ Representable(tables)) =>
        LET result == parse(sql)
        IN /\ result.ok
           /\ Equivalent(result.tables, tables)
           /\ infer_relationships(result.tables) = infer_relationships(tables)

\* SQL was generated from users and posts: a nullable primary key, a NOT
\* NULL foreign key that resolves, a unique column and a default.
C25_Witness ==
    /\ last.op = "generateSQL"
    /\ Representable(tables)
    /\ TableNames(tables) = {"users", "posts"}
    /\ infer_relationships(parse(sql).tables) # <<>>

====
